---- MODULE Spec2Model ----
(***************************************************************************)
(* Recurring-event expansion of the events-calendar module.                *)
(*                                                                         *)
(* generateRecurringEvents is the loop documented in                       *)
(* src/events-calendar/README.md (lines 177-211).  Its two helpers,        *)
(* shouldCreateOccurrence and getNextOccurrenceDate, are called there but  *)
(* their bodies are not part of the sources at hand; they are modelled     *)
(* from section 4.1 of the specification (candidate rule 3a, stepping      *)
(* rule 3c).  Those rules refer to the base event's startDate (its         *)
(* weekday, its day of month, the week number since the anchor), so the    *)
(* helpers take it as a third argument.  Monthly clamp policy: the last    *)
(* day of the month when the anchor day does not exist in it.              *)
(*                                                                         *)
(* Time: an instant is a whole number of hours since 2024-01-01T00:00Z     *)
(* (a Monday); all calendar arithmetic is done in UTC.                     *)
(***************************************************************************)
EXTENDS Integers, Sequences, FiniteSets

VARIABLES
    baseEvent,        \* the stored base event handed to the expander
    rangeStart,       \* query window, inclusive lower bound (instant)
    rangeEnd,         \* query window, inclusive upper bound (instant)
    currentDate,      \* the loop cursor
    occurrenceCount,  \* occurrences counted so far by the loop
    events,           \* occurrences pushed so far
    pc,               \* "loop" while in the while loop, "done" after it
    objectIdCounter,  \* the process-wide source of new ObjectIds
    calls,            \* expansions of this base event and window finished before
    previous,         \* what the expansion before the current one returned
    store,            \* the stored events-calendar records
    requests,         \* POST /events-calendar requests handled so far
    request,          \* the last POST /events-calendar request
    response,         \* the answer to that request
    userId,           \* findEventsInRange: the user asked for
    baseEvents,       \* findEventsInRange: base events still to visit
    allEvents,        \* findEventsInRange: the result built so far
    active,           \* interleaved expansions: the call that is running
    frames,           \* interleaved expansions: the locals of the suspended calls
    countdowns,       \* the stored countdown timers
    stopwatches,      \* the stored stopwatch timers
    schedulerRegistry,\* the timeouts registered by name
    emitted,          \* what the timer call under way or just ended emitted
    now,              \* the clock read by new Date()
    timerCall,        \* the timer call whose save has completed, if any
    outcome,          \* how the last timer call ended
    timerCalls,        \* timer calls made so far
    clients,          \* the sockets that ever connected, by socket id
    rooms,            \* pairs of a socket id and a room the socket is in
    received,         \* the events each socket received, in order
    userSockets,      \* per gateway, the map from user id to socket ids
    pomodoros,        \* the stored pomodoros
    lookups,          \* the calls of the pomodoro service, in order
    sent,             \* the emits of the server, in order
    socketCounter,    \* connections made so far
    wsMessages,       \* join and leave messages handled so far
    message           \* the join or leave message handled last, with its socket

\* what lives across expansions besides the stored event
callVars == <<calls, previous>>

\* the state of the service around the expander
serviceVars == <<store, requests, request, response, userId, baseEvents, allEvents>>

\* the parameters and locals of generateRecurringEvents
expanderVars == <<baseEvent, rangeStart, rangeEnd, currentDate, occurrenceCount, events, pc>>

\* the calls of generateRecurringEvents that are under way
concVars == <<active, frames>>

\* the countdown and stopwatch services and the gateway they emit to
timerVars == <<countdowns, stopwatches, schedulerRegistry, emitted, now, timerCall, outcome,
               timerCalls>>

\* the WebSocket gateways and the pomodoro handler
wsVars == <<clients, rooms, received, userSockets, pomodoros, lookups, sent, socketCounter,
            wsMessages, message>>

\* the state outside the events-calendar service
otherVars == <<concVars, timerVars, wsVars>>

vars == <<baseEvent, rangeStart, rangeEnd, currentDate, occurrenceCount, events, pc,
          objectIdCounter, callVars, serviceVars, otherVars>>

-----------------------------------------------------------------------------
(* Bounds of the model *)

\* intervals 1..MaxInterval are explored
MaxInterval == 3

\* the same expansion is run up to MaxCalls times in a row
MaxCalls == 2

\* the calendar is laid out for this many months from January 2024
HorizonMonths == 30

-----------------------------------------------------------------------------
(* Calendar arithmetic (the JavaScript Date operations the code relies on) *)

HoursPerDay == 24

DaysPerWeek == 7

MonthsPerYear == 12

EpochYear == 2024

\* getDay() of 2024-01-01: Monday, in the 0 = Sunday .. 6 = Saturday numbering
EpochWeekday == 1

NoDate == -1

Min(a, b) == IF a <= b THEN a ELSE b

Max(a, b) == IF a >= b THEN a ELSE b

IsLeapYear(y) == (y % 4 = 0 /\ y % 100 # 0) \/ y % 400 = 0

\* mi counts months from January of EpochYear
DaysInMonth(mi) ==
    LET y == EpochYear + (mi \div MonthsPerYear)
        m == (mi % MonthsPerYear) + 1
    IN  IF m = 2 THEN (IF IsLeapYear(y) THEN 29 ELSE 28)
        ELSE IF m \in {4, 6, 9, 11} THEN 30
        ELSE 31

\* day number (from the epoch) of the first day of month mi
MonthStart[mi \in 0..HorizonMonths] ==
    IF mi = 0 THEN 0 ELSE MonthStart[mi - 1] + DaysInMonth(mi - 1)

\* new Date(Date.UTC(y, m - 1, d, h))
Date(y, m, d, h) ==
    (MonthStart[(y - EpochYear) * MonthsPerYear + (m - 1)] + (d - 1)) * HoursPerDay + h

DayOf(t) == t \div HoursPerDay

HourOf(t) == t % HoursPerDay

\* Date.prototype.getDay(): 0 = Sunday .. 6 = Saturday
getDay(t) == (DayOf(t) + EpochWeekday) % DaysPerWeek

MonthIndex(t) ==
    CHOOSE mi \in 0..(HorizonMonths - 1) :
        MonthStart[mi] <= DayOf(t) /\ DayOf(t) < MonthStart[mi + 1]

\* Date.prototype.getDate(): day of the month, 1-based
getDate(t) == DayOf(t) - MonthStart[MonthIndex(t)] + 1

addDays(t, n) == t + n * HoursPerDay

-----------------------------------------------------------------------------
(* Recurrence rule helpers *)

\* interval, defaulting to 1 when it is not positive
Interval(recurrence) ==
    IF recurrence.interval >= 1 THEN recurrence.interval ELSE 1

weekNumberSinceAnchor(date, startDate) ==
    (DayOf(date) - DayOf(startDate)) \div DaysPerWeek

\* day of month the rule lands on in month mi: the anchor day, or the last
\* day of the month when the month is shorter
ClampedDay(startDate, mi) == Min(getDate(startDate), DaysInMonth(mi))

\* a candidate rule that accepts every week, whatever the interval
shouldCreateOccurrence_EveryWeek(date, recurrence, startDate) ==
    CASE recurrence.frequency = "daily" -> TRUE
      [] recurrence.frequency = "weekly" ->
            IF recurrence.daysOfWeek = {}
            THEN getDay(date) = getDay(startDate)
            ELSE getDay(date) \in recurrence.daysOfWeek
      [] recurrence.frequency = "monthly" ->
            getDate(date) = ClampedDay(startDate, MonthIndex(date))
      [] OTHER -> FALSE

\* a candidate rule that filters weekdays only when daysOfWeek is given
shouldCreateOccurrence_NoImpliedDay(date, recurrence, startDate) ==
    CASE recurrence.frequency = "daily" -> TRUE
      [] recurrence.frequency = "weekly" ->
            /\ recurrence.daysOfWeek # {} => getDay(date) \in recurrence.daysOfWeek
            /\ weekNumberSinceAnchor(date, startDate) % Interval(recurrence) = 0
      [] recurrence.frequency = "monthly" ->
            getDate(date) = ClampedDay(startDate, MonthIndex(date))
      [] OTHER -> FALSE

shouldCreateOccurrence(date, recurrence, startDate) ==
    CASE recurrence.frequency = "daily" -> TRUE
      [] recurrence.frequency = "weekly" ->
            /\ IF recurrence.daysOfWeek = {}
               THEN getDay(date) = getDay(startDate)
               ELSE getDay(date) \in recurrence.daysOfWeek
            /\ weekNumberSinceAnchor(date, startDate) % Interval(recurrence) = 0
      [] recurrence.frequency = "monthly" ->
            getDate(date) = ClampedDay(startDate, MonthIndex(date))
      [] OTHER -> FALSE

\* a monthly step that keeps the cursor's own day of month and lets it
\* overflow into the following month (Date.prototype.setMonth)
getNextOccurrenceDate_Overflow(date, recurrence, startDate) ==
    CASE recurrence.frequency = "daily" -> addDays(date, Interval(recurrence))
      [] recurrence.frequency = "weekly" -> addDays(date, 1)
      [] recurrence.frequency = "monthly" ->
            LET mi == MonthIndex(date) + Interval(recurrence)
            IN  (MonthStart[mi] + getDate(date) - 1) * HoursPerDay + HourOf(date)
      [] OTHER -> addDays(date, 1)

\* a step that defaults a negative interval only and keeps a zero one
getNextOccurrenceDate_ZeroKept(date, recurrence, startDate) ==
    LET k == IF recurrence.interval < 0 THEN 1 ELSE recurrence.interval
    IN  CASE recurrence.frequency = "daily" -> addDays(date, k)
          [] recurrence.frequency = "weekly" -> addDays(date, 1)
          [] recurrence.frequency = "monthly" ->
                LET mi == MonthIndex(date) + k
                IN  (MonthStart[mi] + ClampedDay(startDate, mi) - 1) * HoursPerDay
                        + HourOf(date)
          [] OTHER -> addDays(date, 1)

getNextOccurrenceDate(date, recurrence, startDate) ==
    CASE recurrence.frequency = "daily" -> addDays(date, Interval(recurrence))
      [] recurrence.frequency = "weekly" -> addDays(date, 1)
      [] recurrence.frequency = "monthly" ->
            LET mi == MonthIndex(date) + Interval(recurrence)
            IN  (MonthStart[mi] + ClampedDay(startDate, mi) - 1) * HoursPerDay
                    + HourOf(date)
      [] OTHER -> addDays(date, 1)

-----------------------------------------------------------------------------
(* generateRecurringEvents *)

DefaultMaxOccurrences == 100

\* a rule's endDate that is ignored
maxDate_IgnoresEndDate == rangeEnd

\* const maxDate = recurrence.endDate || rangeEnd
maxDate ==
    IF baseEvent.recurrence.endDate # NoDate
    THEN baseEvent.recurrence.endDate
    ELSE rangeEnd

\* a rule's maxOccurrences that is ignored
maxOccurrences_IgnoresRule == DefaultMaxOccurrences

\* const maxOccurrences = recurrence.maxOccurrences || 100
maxOccurrences ==
    IF baseEvent.recurrence.maxOccurrences # 0
    THEN baseEvent.recurrence.maxOccurrences
    ELSE DefaultMaxOccurrences

\* a window whose upper bound is exclusive
WhileCond_ExclusiveEnd ==
    /\ currentDate <= maxDate
    /\ currentDate < rangeEnd
    /\ occurrenceCount < maxOccurrences

\* a loop that does not look at the number of occurrences
WhileCond_NoCountCheck ==
    /\ currentDate <= maxDate
    /\ currentDate <= rangeEnd

\* a loop that does not look at the window's upper bound
WhileCond_NoRangeEnd ==
    /\ currentDate <= maxDate
    /\ occurrenceCount < maxOccurrences

\* while (currentDate <= maxDate && currentDate <= rangeEnd && occurrenceCount < maxOccurrences)
WhileCond ==
    /\ currentDate <= maxDate
    /\ currentDate <= rangeEnd
    /\ occurrenceCount < maxOccurrences

\* a lower window bound that is never applied
InWindow_NoLowerBound == TRUE

\* if (currentDate >= rangeStart)
InWindow == currentDate >= rangeStart

\* if (this.shouldCreateOccurrence(currentDate, recurrence))
Creates == shouldCreateOccurrence(currentDate, baseEvent.recurrence, baseEvent.startDate)

\* an occurrence whose startDate is left as the spread copied it
occurrenceEvent_KeepsSeedStart ==
    [id                  |-> objectIdCounter,
     userId              |-> baseEvent.userId,
     title               |-> baseEvent.title,
     recurrence          |-> baseEvent.recurrence,
     startDate           |-> baseEvent.startDate,
     isRecurringInstance |-> TRUE,
     parentEventId       |-> baseEvent.id]

\* an occurrence whose _id is left as the spread copied it
occurrenceEvent_KeepsBaseId ==
    [id                  |-> baseEvent.id,
     userId              |-> baseEvent.userId,
     title               |-> baseEvent.title,
     recurrence          |-> baseEvent.recurrence,
     startDate           |-> currentDate,
     isRecurringInstance |-> TRUE,
     parentEventId       |-> baseEvent.id]

\* { ...baseEvent.toObject(), _id: new ObjectId(), startDate: new Date(currentDate),
\*   isRecurringInstance: true, parentEventId: baseEvent._id }
occurrenceEvent ==
    [id                  |-> objectIdCounter,
     userId              |-> baseEvent.userId,
     title               |-> baseEvent.title,
     recurrence          |-> baseEvent.recurrence,
     startDate           |-> currentDate,
     isRecurringInstance |-> TRUE,
     parentEventId       |-> baseEvent.id]

\* a cursor that is not moved on
NextCursor_Stuck == currentDate

\* currentDate = this.getNextOccurrenceDate(currentDate, recurrence)
NextCursor ==
    getNextOccurrenceDate(currentDate, baseEvent.recurrence, baseEvent.startDate)

\* a cursor that is the base event's own Date object: moving it moves the
\* base event's startDate
BaseEventAfterStep_Aliased == [baseEvent EXCEPT !.startDate = NextCursor]

\* the base event after an iteration: the cursor is a copy made by
\* new Date(baseEvent.startDate) and the occurrence a copy made by the
\* spread, so the iteration writes nothing into the base event
BaseEventAfterStep == baseEvent

\* one loop iteration that pushes an occurrence
EmitStep ==
    /\ pc = "loop"
    /\ WhileCond
    /\ InWindow /\ Creates
    /\ events' = Append(events, occurrenceEvent)
    /\ objectIdCounter' = objectIdCounter + 1
    /\ occurrenceCount' = occurrenceCount + 1
    /\ currentDate' = NextCursor
    /\ baseEvent' = BaseEventAfterStep
    /\ UNCHANGED <<rangeStart, rangeEnd, pc, callVars, serviceVars, otherVars>>

\* one loop iteration that pushes nothing
SkipStep ==
    /\ pc = "loop"
    /\ WhileCond
    /\ ~(InWindow /\ Creates)
    /\ currentDate' = NextCursor
    /\ baseEvent' = BaseEventAfterStep
    /\ UNCHANGED <<rangeStart, rangeEnd, occurrenceCount, events, pc, objectIdCounter,
                   callVars, serviceVars, otherVars>>

\* the while condition fails: the loop is left
ExitLoop ==
    /\ pc = "loop"
    /\ ~WhileCond
    /\ pc' = "done"
    /\ UNCHANGED <<baseEvent, rangeStart, rangeEnd, currentDate, occurrenceCount, events,
                   objectIdCounter, callVars, serviceVars, otherVars>>

-----------------------------------------------------------------------------
(* Inputs *)

Frequencies == {"daily", "weekly", "monthly"}

\* the recurrence field of an event that has none
NoRecurrence ==
    [frequency |-> "none", interval |-> 0, daysOfWeek |-> {}, endDate |-> NoDate,
     maxOccurrences |-> 0]

\* no request has been made
NoRequest == [userId |-> "", title |-> "", startDate |-> NoDate, recurrence |-> NoRecurrence]

\* no request has been answered
NoResponse == [status |-> 0]

MONDAY == 1

WEDNESDAY == 3

\* weekday sets tried for weekly rules ({} stands for an absent daysOfWeek)
DaysOfWeekChoices == {{}, {MONDAY, WEDNESDAY}}

\* rules of a base event that starts at instant seed; an endDate, when set,
\* is not earlier than the seed
Rules(seed, endDates) ==
    {r \in [frequency      : Frequencies,
            interval       : 1..MaxInterval,
            daysOfWeek     : DaysOfWeekChoices,
            endDate        : {NoDate} \cup endDates,
            maxOccurrences : {0, 2, 20}] :
        /\ r.daysOfWeek # {} => r.frequency = "weekly"
        /\ r.endDate # NoDate => r.endDate >= seed}

\* seeds and query windows of the documented examples (January 2024)
Scenarios2024 ==
    [seed       : {Date(2024, 1, 15, 9), Date(2024, 1, 1, 14), Date(2024, 1, 31, 10),
                   Date(2024, 1, 1, 0)},
     rangeStart : {Date(2024, 1, 1, 0), Date(2024, 2, 10, 12)},
     rangeEnd   : {Date(2024, 1, 10, 0), Date(2024, 1, 31, 0), Date(2024, 1, 31, 23),
                   Date(2024, 3, 31, 0)},
     endDates   : {{Date(2024, 2, 20, 0), Date(2024, 12, 31, 23)}}]

\* anchors on days 29..31 in front of a 28-day February
Scenarios2025 ==
    [seed       : {Date(2025, 1, 29, 10), Date(2025, 1, 30, 10), Date(2025, 1, 31, 10)},
     rangeStart : {Date(2025, 1, 1, 0), Date(2025, 3, 1, 0)},
     rangeEnd   : {Date(2025, 5, 31, 23)},
     endDates   : {{Date(2025, 4, 1, 0), Date(2025, 12, 31, 23)}}]

Scenarios == Scenarios2024 \cup Scenarios2025

\* one call of generateRecurringEvents at a time
NoOtherCall ==
    /\ active = 1
    /\ frames = <<>>

\* no timer call is under way or has ended
NoTimerCall == [op |-> "none"]

NoOutcome == [op |-> "none"]

\* no timer exists and none is asked for
TimersIdle ==
    /\ countdowns = {}
    /\ stopwatches = {}
    /\ schedulerRegistry = {}
    /\ emitted = <<>>
    /\ now = 0
    /\ timerCall = NoTimerCall
    /\ outcome = NoOutcome
    /\ timerCalls = 0

\* no message has been handled
NoMessage == [event |-> "none"]

\* no socket has connected
WsIdle ==
    /\ clients = <<>>
    /\ rooms = {}
    /\ received = <<>>
    /\ userSockets = [g \in {"app", "timer"} |-> [u \in {"u1", "u2"} |-> {}]]
    /\ pomodoros = {}
    /\ lookups = <<>>
    /\ sent = <<>>
    /\ socketCounter = 0
    /\ wsMessages = 0
    /\ message = NoMessage

\* nothing happens outside the events-calendar service
OthersIdle == NoOtherCall /\ TimersIdle /\ WsIdle

\* a cursor that starts at the window instead of the seed
InitialCursor_AtWindow == Max(baseEvent.startDate, rangeStart)

\* let currentDate = new Date(baseEvent.startDate)
InitialCursor == baseEvent.startDate

\* a count that is kept from the expansion before
InitialCount_Carried == IF pc = "done" THEN occurrenceCount ELSE 0

\* let occurrenceCount = 0
InitialCount == 0

Init ==
    /\ pc = "loop"
    /\ \E s \in Scenarios :
          /\ \E r \in Rules(s.seed, s.endDates) :
                baseEvent = [id |-> 1, userId |-> "u1", title |-> "t",
                             startDate |-> s.seed, recurrence |-> r]
          /\ rangeStart = s.rangeStart
          /\ rangeEnd = s.rangeEnd
    /\ currentDate = InitialCursor
    /\ occurrenceCount = InitialCount
    /\ events = <<>>
    /\ objectIdCounter = baseEvent.id + 1
    /\ calls = 0
    /\ previous = <<>>
    /\ store = {}
    /\ requests = 0
    /\ request = NoRequest
    /\ response = NoResponse
    /\ userId = baseEvent.userId
    /\ baseEvents = <<>>
    /\ allEvents = <<>>
    /\ OthersIdle

\* generateRecurringEvents is entered again with the same base event and
\* window: its locals are set up anew, the stored event and the ObjectId
\* source are what the call before left
CallAgain ==
    /\ pc = "done"
    /\ calls < MaxCalls - 1
    /\ calls' = calls + 1
    /\ previous' = events
    /\ currentDate' = InitialCursor
    /\ occurrenceCount' = InitialCount
    /\ events' = <<>>
    /\ pc' = "loop"
    /\ UNCHANGED <<baseEvent, rangeStart, rangeEnd, objectIdCounter, serviceVars, otherVars>>

Next == EmitStep \/ SkipStep \/ ExitLoop \/ CallAgain

Spec == Init /\ [][Next]_vars

\* the loop is synchronous code: an iteration that can run does run
FairSpec == Spec /\ WF_vars(Next)

-----------------------------------------------------------------------------
(* The service around the expander: POST /events-calendar and the range    *)
(* query findEventsInRange                                                  *)

\* POST /events-calendar requests handled in one behaviour
MaxRequests == 1

Users == {"u1", "u2"}

\* HTTP status of a created event
Created == 201

\* HTTP status of a rejected request
BadRequest == 400

\* parentEventId of a record that is not an occurrence
NoParent == 0

\* if (event.recurrence)
HasRecurrence(event) == event.recurrence # NoRecurrence

\* DayOfWeek.SUNDAY
SUNDAY == 7

\* Sunday in the table of day of week values
TableSunday == 0

\* weekday sets sent by clients: Sunday under either of its two numbers too
RequestDaysOfWeek == DaysOfWeekChoices \cup {{SUNDAY}, {TableSunday}}

\* rules sent by clients: the frequency may be unknown, the interval absent
\* (0) or negative
RequestRules ==
    {r \in [frequency      : Frequencies \cup {"invalid_frequency"},
            interval       : {-1, 0, 1},
            daysOfWeek     : RequestDaysOfWeek,
            endDate        : {NoDate},
            maxOccurrences : {0}] :
        r.daysOfWeek # {} => r.frequency = "weekly"}

RequestBodies ==
    [userId     : Users,
     title      : {"t"},
     startDate  : {Date(2024, 1, 15, 9)},
     recurrence : RequestRules \cup {NoRecurrence}]

\* a validation that lets every frequency through
ValidFrequency_Any(recurrence) == TRUE

\* the input-validation layer: the frequency is one of the known ones
ValidFrequency(recurrence) == recurrence.frequency \in Frequencies

ValidBody(body) == HasRecurrence(body) => ValidFrequency(body.recurrence)

\* the record saved for a request: a base event
StoredEvent(body) ==
    [id |-> objectIdCounter, userId |-> body.userId, title |-> body.title,
     startDate |-> body.startDate, recurrence |-> body.recurrence,
     isRecurringInstance |-> FALSE, parentEventId |-> NoParent]

\* POST /events-calendar with a body that passes validation
CreateEvent ==
    /\ pc = "idle"
    /\ requests < MaxRequests
    /\ \E body \in RequestBodies :
          /\ ValidBody(body)
          /\ request' = body
          /\ store' = store \cup {StoredEvent(body)}
    /\ objectIdCounter' = objectIdCounter + 1
    /\ requests' = requests + 1
    /\ response' = [status |-> Created]
    /\ UNCHANGED <<baseEvent, rangeStart, rangeEnd, currentDate, occurrenceCount, events,
                   pc, callVars, userId, baseEvents, allEvents, otherVars>>

\* POST /events-calendar with a body that fails validation
RejectEvent ==
    /\ pc = "idle"
    /\ requests < MaxRequests
    /\ \E body \in RequestBodies :
          /\ ~ValidBody(body)
          /\ request' = body
    /\ requests' = requests + 1
    /\ response' = [status |-> BadRequest]
    /\ UNCHANGED <<baseEvent, rangeStart, rangeEnd, currentDate, occurrenceCount, events,
                   pc, objectIdCounter, callVars, store, userId, baseEvents, allEvents, otherVars>>

\* a query that does not look at the owner of the records
BaseEventsQuery_AllUsers(u) == {e \in store : e.isRecurringInstance # TRUE}

\* eventsCalendarModel.find({ userId, isRecurringInstance: { $ne: true } })
BaseEventsQuery(u) == {e \in store : e.userId = u /\ e.isRecurringInstance # TRUE}

\* the records of S in the order they were stored
InIdOrder(S) ==
    [i \in 1..Cardinality(S) |->
        CHOOSE e \in S : Cardinality({x \in S : x.id < e.id}) = i - 1]

\* windows asked for by range queries
QueryWindows ==
    {[startDate |-> Date(2024, 1, 1, 0),  endDate |-> Date(2024, 1, 31, 23)],
     [startDate |-> Date(2024, 1, 20, 0), endDate |-> Date(2024, 2, 10, 0)]}

\* findEventsInRange is entered: the base events of the user are loaded
FindEventsInRange ==
    /\ pc = "idle"
    /\ \E u \in Users, w \in QueryWindows :
          /\ userId' = u
          /\ rangeStart' = w.startDate
          /\ rangeEnd' = w.endDate
          /\ baseEvents' = InIdOrder(BaseEventsQuery(u))
    /\ allEvents' = <<>>
    /\ pc' = "query"
    /\ UNCHANGED <<baseEvent, currentDate, occurrenceCount, events, objectIdCounter,
                   callVars, store, requests, request, response, otherVars>>

\* event.startDate >= startDate && event.startDate <= endDate
SingleInRange(event) == event.startDate >= rangeStart /\ event.startDate <= rangeEnd

\* the for loop visits an event without recurrence
TakeSingle ==
    /\ pc = "query"
    /\ baseEvents # <<>>
    /\ ~HasRecurrence(Head(baseEvents))
    /\ allEvents' = IF SingleInRange(Head(baseEvents))
                    THEN Append(allEvents, Head(baseEvents))
                    ELSE allEvents
    /\ baseEvents' = Tail(baseEvents)
    /\ UNCHANGED <<baseEvent, rangeStart, rangeEnd, currentDate, occurrenceCount, events,
                   pc, objectIdCounter, callVars, store, requests, request, response,
                   userId, otherVars>>

\* the for loop visits an event with recurrence: generateRecurringEvents is
\* entered with it and the window of the query
BeginExpand ==
    /\ pc = "query"
    /\ baseEvents # <<>>
    /\ HasRecurrence(Head(baseEvents))
    /\ baseEvent' = Head(baseEvents)
    /\ currentDate' = InitialCursor'
    /\ occurrenceCount' = InitialCount
    /\ events' = <<>>
    /\ pc' = "loop"
    /\ UNCHANGED <<rangeStart, rangeEnd, objectIdCounter, callVars, serviceVars, otherVars>>

\* allEvents.push(...recurringEvents)
PushExpanded ==
    /\ pc = "done"
    /\ allEvents' = allEvents \o events
    /\ baseEvents' = Tail(baseEvents)
    /\ pc' = "query"
    /\ UNCHANGED <<baseEvent, rangeStart, rangeEnd, currentDate, occurrenceCount, events,
                   objectIdCounter, callVars, store, requests, request, response, userId,
                   otherVars>>

\* the for loop is over: allEvents is the answer
ReturnEvents ==
    /\ pc = "query"
    /\ baseEvents = <<>>
    /\ pc' = "returned"
    /\ UNCHANGED <<baseEvent, rangeStart, rangeEnd, currentDate, occurrenceCount, events,
                   objectIdCounter, callVars, serviceVars, otherVars>>

\* a weekly rule on Mondays and Wednesdays
MonWedRule ==
    [frequency |-> "weekly", interval |-> 1, daysOfWeek |-> {MONDAY, WEDNESDAY},
     endDate |-> NoDate, maxOccurrences |-> 0]

\* a rule for every second day
EverySecondDayRule ==
    [frequency |-> "daily", interval |-> 2, daysOfWeek |-> {}, endDate |-> NoDate,
     maxOccurrences |-> 0]

\* records found in the collection: single events on the bounds of the
\* windows, a stored occurrence, recurring events, of two users
StoredRecords ==
    {[id |-> 1, userId |-> "u1", title |-> "a", startDate |-> Date(2024, 1, 1, 0),
      recurrence |-> NoRecurrence, isRecurringInstance |-> FALSE, parentEventId |-> NoParent],
     [id |-> 2, userId |-> "u1", title |-> "b", startDate |-> Date(2024, 2, 10, 0),
      recurrence |-> NoRecurrence, isRecurringInstance |-> FALSE, parentEventId |-> NoParent],
     [id |-> 3, userId |-> "u2", title |-> "c", startDate |-> Date(2024, 1, 25, 10),
      recurrence |-> NoRecurrence, isRecurringInstance |-> FALSE, parentEventId |-> NoParent],
     [id |-> 4, userId |-> "u1", title |-> "d", startDate |-> Date(2024, 1, 22, 9),
      recurrence |-> MonWedRule, isRecurringInstance |-> TRUE, parentEventId |-> 5],
     [id |-> 5, userId |-> "u1", title |-> "d", startDate |-> Date(2024, 1, 15, 9),
      recurrence |-> MonWedRule, isRecurringInstance |-> FALSE, parentEventId |-> NoParent],
     [id |-> 6, userId |-> "u2", title |-> "e", startDate |-> Date(2024, 1, 10, 9),
      recurrence |-> EverySecondDayRule, isRecurringInstance |-> FALSE,
      parentEventId |-> NoParent]}

InitialStores == {{}, StoredRecords}

ServiceInit ==
    /\ pc = "idle"
    /\ store \in InitialStores
    /\ objectIdCounter = Cardinality(store) + 1
    /\ requests = 0
    /\ request = NoRequest
    /\ response = NoResponse
    /\ userId = ""
    /\ baseEvents = <<>>
    /\ allEvents = <<>>
    /\ baseEvent = [id |-> NoParent, userId |-> "", title |-> "", startDate |-> NoDate,
                    recurrence |-> NoRecurrence, isRecurringInstance |-> FALSE,
                    parentEventId |-> NoParent]
    /\ rangeStart = NoDate
    /\ rangeEnd = NoDate
    /\ currentDate = NoDate
    /\ occurrenceCount = 0
    /\ events = <<>>
    /\ calls = 0
    /\ previous = <<>>
    /\ OthersIdle

ServiceNext ==
    \/ CreateEvent
    \/ RejectEvent
    \/ FindEventsInRange
    \/ TakeSingle
    \/ BeginExpand
    \/ EmitStep
    \/ SkipStep
    \/ ExitLoop
    \/ PushExpanded
    \/ ReturnEvents

ServiceSpec == ServiceInit /\ [][ServiceNext]_vars

\* a request handler that can take its next step does take it
FairServiceSpec == ServiceSpec /\ WF_vars(ServiceNext)

-----------------------------------------------------------------------------
(* Interleaved calls of generateRecurringEvents: every call has its own     *)
(* parameters and locals (const events, let currentDate, let                *)
(* occurrenceCount); the stored events and the ObjectId source are shared   *)

\* calls under way at the same time
MaxConcurrent == 2

ConcurrentCalls == 1..MaxConcurrent

\* the parameters and locals of the running call
Frame ==
    [baseEvent |-> baseEvent, rangeStart |-> rangeStart, rangeEnd |-> rangeEnd,
     currentDate |-> currentDate, occurrenceCount |-> occurrenceCount, events |-> events,
     pc |-> pc]

\* a counter that is a field of the service instead of a local of the call
ResumedCount_Shared(frame) == occurrenceCount

\* let occurrenceCount: the counter a call finds when it goes on is its own
ResumedCount(frame) == frame.occurrenceCount

\* the running call is suspended and call c goes on
SwitchCall ==
    \E c \in DOMAIN frames :
        /\ frames[c].pc = "loop"
        /\ active' = c
        /\ frames' = [x \in (DOMAIN frames \ {c}) \cup {active} |->
                        IF x = active THEN Frame ELSE frames[x]]
        /\ baseEvent' = frames[c].baseEvent
        /\ rangeStart' = frames[c].rangeStart
        /\ rangeEnd' = frames[c].rangeEnd
        /\ currentDate' = frames[c].currentDate
        /\ occurrenceCount' = ResumedCount(frames[c])
        /\ events' = frames[c].events
        /\ pc' = frames[c].pc
        /\ UNCHANGED <<objectIdCounter, callVars, serviceVars, timerVars, wsVars>>

\* a rule that stops after two occurrences
TwiceRule ==
    [frequency |-> "daily", interval |-> 1, daysOfWeek |-> {}, endDate |-> NoDate,
     maxOccurrences |-> 2]

\* the stored base events the interleaved calls expand
ConcurrentEvents ==
    {[id |-> 1, userId |-> "u1", title |-> "d", startDate |-> Date(2024, 1, 15, 9),
      recurrence |-> MonWedRule],
     [id |-> 2, userId |-> "u2", title |-> "e", startDate |-> Date(2024, 1, 16, 9),
      recurrence |-> TwiceRule]}

ConcurrentWindows ==
    {[startDate |-> Date(2024, 1, 15, 0), endDate |-> Date(2024, 1, 19, 23)],
     [startDate |-> Date(2024, 1, 17, 0), endDate |-> Date(2024, 1, 20, 0)]}

\* the frame of a call that has just been entered
EnteredFrame(event, window) ==
    [baseEvent |-> event, rangeStart |-> window.startDate, rangeEnd |-> window.endDate,
     currentDate |-> event.startDate, occurrenceCount |-> InitialCount, events |-> <<>>,
     pc |-> "loop"]

ConcurrentInit ==
    /\ active = 1
    /\ \E e \in ConcurrentEvents, w \in ConcurrentWindows :
          /\ baseEvent = e
          /\ rangeStart = w.startDate
          /\ rangeEnd = w.endDate
    /\ currentDate = InitialCursor
    /\ occurrenceCount = InitialCount
    /\ events = <<>>
    /\ pc = "loop"
    /\ frames \in [ConcurrentCalls \ {1} ->
                     {EnteredFrame(e, w) : e \in ConcurrentEvents, w \in ConcurrentWindows}]
    /\ objectIdCounter = Cardinality(ConcurrentEvents) + 1
    /\ calls = 0
    /\ previous = <<>>
    /\ store = ConcurrentEvents
    /\ requests = 0
    /\ request = NoRequest
    /\ response = NoResponse
    /\ userId = ""
    /\ baseEvents = <<>>
    /\ allEvents = <<>>
    /\ TimersIdle
    /\ WsIdle

ConcurrentNext == EmitStep \/ SkipStep \/ ExitLoop \/ SwitchCall

ConcurrentSpec == ConcurrentInit /\ [][ConcurrentNext]_vars

-----------------------------------------------------------------------------
(* Countdown and stopwatch timers: CountdownService, StopwatchService and   *)
(* TimerGateway.emitStatus.  A call runs up to the completion of its save   *)
(* in one step and from there to its return in a second one.  The           *)
(* scheduler registry is the SchedulerRegistry of @nestjs/schedule:          *)
(* addTimeout throws when a timeout of that name is registered,             *)
(* deleteTimeout throws when none is.                                       *)

\* timer calls made in one behaviour
MaxTimerCalls == 3

\* ticks of the clock in one behaviour
MaxClock == 2

RUNNING == "running"

PAUSED == "paused"

STOPPED == "stopped"

FINISHED == "finished"

TimerStatus == {RUNNING, PAUSED, STOPPED, FINISHED}

\* a date field that is null
Null == -1

\* a date field that has never been set
Unset == -2

\* pausedState: null
NullState == "null"

\* no timer: the value of a call that returns nothing
NoTimer == <<>>

\* durations asked for when a countdown is created
Durations == {1}

\* nothing is left to do outside the timers
CalendarIdle ==
    /\ pc = "idle"
    /\ baseEvent = [id |-> NoParent, userId |-> "", title |-> "", startDate |-> NoDate,
                    recurrence |-> NoRecurrence, isRecurringInstance |-> FALSE,
                    parentEventId |-> NoParent]
    /\ rangeStart = NoDate
    /\ rangeEnd = NoDate
    /\ currentDate = NoDate
    /\ occurrenceCount = 0
    /\ events = <<>>
    /\ calls = 0
    /\ previous = <<>>
    /\ store = {}
    /\ requests = 0
    /\ request = NoRequest
    /\ response = NoResponse
    /\ userId = ""
    /\ baseEvents = <<>>
    /\ allEvents = <<>>
    /\ NoOtherCall

\* the collection of a kind of timer
Collection(kind) == IF kind = "countdown" THEN countdowns ELSE stopwatches

\* a lookup by id alone
findOne_AnyOwner(kind, u, id) == {t \in Collection(kind) : t.id = id}

\* model.findOne({ _id, userId }): the timers found (none or one)
findOne(kind, u, id) == {t \in Collection(kind) : t.id = id /\ t.userId = u}

\* model.find({ userId })
findAll(kind, u) == {t \in Collection(kind) : t.userId = u}

\* NotFoundException('Countdown not found') / ('Stopwatch not found')
NotFoundMessage(kind) ==
    IF kind = "countdown" THEN "Countdown not found" ELSE "Stopwatch not found"

\* the guards of start, pause, resume and stop: the call returns the timer as
\* it is
\* a start with no guard
StartSkips_Never(t) == FALSE

StartSkips(t) == t.status = RUNNING

\* a pause with no guard
PauseSkips_Never(t) == FALSE

PauseSkips(t) == t.status # RUNNING

ResumeSkips(t) == t.status # PAUSED

StopSkips(t) == t.status = STOPPED

\* new this.countdownModel({...dto, userId, status, remainingTime})
CountdownCreated(u, duration) ==
    [id |-> objectIdCounter, userId |-> u, status |-> STOPPED, startedAt |-> Unset,
     pausedState |-> NullState, duration |-> duration, remainingTime |-> duration]

CountdownStarted(c) == [c EXCEPT !.startedAt = now, !.status = RUNNING]

CountdownPaused(c) ==
    [c EXCEPT !.pausedState = PAUSED, !.status = PAUSED,
              !.remainingTime = c.duration - (now - c.startedAt)]

CountdownResumed(c) ==
    [c EXCEPT !.startedAt = now, !.status = RUNNING, !.pausedState = NullState]

\* a stop that keeps the remaining time
CountdownStopped_KeepsRemaining(c) ==
    [c EXCEPT !.status = STOPPED, !.startedAt = Null, !.pausedState = NullState]

CountdownStopped(c) ==
    [c EXCEPT !.status = STOPPED, !.startedAt = Null, !.pausedState = NullState,
              !.remainingTime = c.duration]

\* new this.stopwatchModel({...dto, userId, status, elapsedTime, totalElapsedTime})
StopwatchCreated(u) ==
    [id |-> objectIdCounter, userId |-> u, status |-> STOPPED, startedAt |-> Unset,
     pausedAt |-> Unset, elapsedTime |-> 0, totalElapsedTime |-> 0]

StopwatchStarted(w) == [w EXCEPT !.startedAt = now, !.status = RUNNING]

StopwatchPaused(w) ==
    [w EXCEPT !.pausedAt = now, !.status = PAUSED,
              !.elapsedTime = w.elapsedTime + (now - w.startedAt),
              !.totalElapsedTime = w.elapsedTime + (now - w.startedAt)]

StopwatchResumed(w) == [w EXCEPT !.startedAt = now, !.status = RUNNING, !.pausedAt = Null]

StopwatchStopped(w) ==
    [w EXCEPT !.status = STOPPED, !.startedAt = Null, !.pausedAt = Null,
              !.elapsedTime = 0, !.totalElapsedTime = 0]

\* document.save(): the stored timer is replaced by the changed one
Save(kind, old, new) ==
    IF kind = "countdown"
    THEN countdowns' = (countdowns \ {old}) \cup {new} /\ UNCHANGED stopwatches
    ELSE stopwatches' = (stopwatches \ {old}) \cup {new} /\ UNCHANGED countdowns

\* the guard of each operation
Skips(op, t) ==
    CASE op = "start" -> StartSkips(t)
      [] op = "pause" -> PauseSkips(t)
      [] op = "resume" -> ResumeSkips(t)
      [] op = "stop" -> StopSkips(t)

\* the timer as each operation changes it
Changed(op, kind, t) ==
    IF kind = "countdown"
    THEN CASE op = "start" -> CountdownStarted(t)
           [] op = "pause" -> CountdownPaused(t)
           [] op = "resume" -> CountdownResumed(t)
           [] op = "stop" -> CountdownStopped(t)
    ELSE CASE op = "start" -> StopwatchStarted(t)
           [] op = "pause" -> StopwatchPaused(t)
           [] op = "resume" -> StopwatchResumed(t)
           [] op = "stop" -> StopwatchStopped(t)

\* ids a client may ask for: those handed out so far and one that is not
RequestedIds == 1..objectIdCounter

\* the common course of start, pause, resume and stop up to the completion
\* of save: findOne (NotFoundException when nothing is found), the guard
\* (the timer is returned as it is), the changes, save
Change(op, kind) ==
    /\ timerCall = NoTimerCall
    /\ timerCalls < MaxTimerCalls
    /\ timerCalls' = timerCalls + 1
    /\ emitted' = <<>>
    /\ \E u \in Users, id \in RequestedIds :
          LET found == findOne(kind, u, id)
              doc   == CHOOSE t \in found : TRUE
              call  == [op |-> op, kind |-> kind, userId |-> u, id |-> id]
          IN  IF found = {}
              THEN /\ outcome' = [call |-> call, result |-> "NotFoundException",
                                  message |-> NotFoundMessage(kind), value |-> NoTimer]
                   /\ UNCHANGED <<countdowns, stopwatches, timerCall>>
              ELSE IF Skips(op, doc)
              THEN /\ outcome' = [call |-> call, result |-> "returned", message |-> "",
                                  value |-> doc]
                   /\ UNCHANGED <<countdowns, stopwatches, timerCall>>
              ELSE /\ Save(kind, doc, Changed(op, kind, doc))
                   /\ timerCall' = [op |-> op, kind |-> kind, call |-> call,
                                    saved |-> Changed(op, kind, doc)]
                   /\ outcome' = NoOutcome
    /\ UNCHANGED <<schedulerRegistry, now, objectIdCounter, expanderVars, callVars,
                   serviceVars, concVars, wsVars>>

CountdownStart == Change("start", "countdown")

CountdownPause == Change("pause", "countdown")

CountdownResume == Change("resume", "countdown")

CountdownStop == Change("stop", "countdown")

StopwatchStart == Change("start", "stopwatch")

StopwatchPause == Change("pause", "stopwatch")

StopwatchResume == Change("resume", "stopwatch")

StopwatchStop == Change("stop", "stopwatch")

\* the document create makes
NewTimer(kind, u, duration) ==
    IF kind = "countdown" THEN CountdownCreated(u, duration) ELSE StopwatchCreated(u)

\* create up to the completion of save
Create(kind, duration) ==
    /\ timerCall = NoTimerCall
    /\ timerCalls < MaxTimerCalls
    /\ timerCalls' = timerCalls + 1
    /\ emitted' = <<>>
    /\ \E u \in Users :
          /\ Save(kind, NoTimer, NewTimer(kind, u, duration))
          /\ timerCall' = [op |-> "create", kind |-> kind,
                           call |-> [op |-> "create", kind |-> kind, userId |-> u,
                                     id |-> objectIdCounter],
                           saved |-> NewTimer(kind, u, duration)]
    /\ objectIdCounter' = objectIdCounter + 1
    /\ outcome' = NoOutcome
    /\ UNCHANGED <<schedulerRegistry, now, expanderVars, callVars, serviceVars, concVars,
                   wsVars>>

CountdownCreate == \E duration \in Durations : Create("countdown", duration)

\* a stopwatch has no duration
StopwatchCreate == Create("stopwatch", 0)

\* the name of a countdown's timeout: countdown._id.toString()
TimeoutName(c) == c.id

\* SchedulerRegistry.addTimeout(name, ref) throws when the name holds a ref
\* that is truthy; deleteTimeout(name) throws when the name holds none
RegistryThrows(op, c) ==
    CASE op \in {"start", "resume"} ->
            \E e \in schedulerRegistry : e.name = TimeoutName(c) /\ e.ref # 0
      [] op \in {"pause", "stop"} ->
            ~ \E e \in schedulerRegistry : e.name = TimeoutName(c)
      [] OTHER -> FALSE

\* the registry after the call's addTimeout(id, duration) or deleteTimeout(id)
RegistryAfter(op, c) ==
    LET others == {e \in schedulerRegistry : e.name # TimeoutName(c)}
    IN  CASE op \in {"start", "resume"} ->
                others \cup {[name |-> TimeoutName(c), ref |-> c.duration]}
          [] op \in {"pause", "stop"} -> others
          [] OTHER -> schedulerRegistry

\* TimerGateway.emitStatus: server.to(`${type}:${timer._id}`).emit('status', timer)
emitStatus(timer, type) ==
    [room |-> <<type, timer.id>>, event |-> "status", data |-> timer]

\* what a call that ran to its end returns
Returned(call, timer) ==
    [call |-> call, result |-> "returned", message |-> "", value |-> timer]

\* a countdown call from the completion of save on: the registry, the emit,
\* the return
CountdownAfterSave ==
    /\ timerCall # NoTimerCall
    /\ timerCall.kind = "countdown"
    /\ ~ RegistryThrows(timerCall.op, timerCall.saved)
    /\ schedulerRegistry' = RegistryAfter(timerCall.op, timerCall.saved)
    /\ emitted' = Append(emitted, emitStatus(timerCall.saved, "countdown"))
    /\ outcome' = Returned(timerCall.call, timerCall.saved)
    /\ timerCall' = NoTimerCall
    /\ UNCHANGED <<countdowns, stopwatches, now, timerCalls, objectIdCounter,
                   expanderVars, callVars, serviceVars, concVars, wsVars>>

\* the registry throws: the call ends there, with the save done and nothing
\* emitted
CountdownRegistryThrows ==
    /\ timerCall # NoTimerCall
    /\ timerCall.kind = "countdown"
    /\ RegistryThrows(timerCall.op, timerCall.saved)
    /\ outcome' = [call |-> timerCall.call, result |-> "Error",
                   message |-> "No Timeout was found with the given name",
                   value |-> NoTimer]
    /\ timerCall' = NoTimerCall
    /\ UNCHANGED <<countdowns, stopwatches, schedulerRegistry, emitted, now, timerCalls,
                   objectIdCounter, expanderVars, callVars, serviceVars, concVars, wsVars>>

\* a stopwatch call from the completion of save on: the emit, the return
StopwatchAfterSave ==
    /\ timerCall # NoTimerCall
    /\ timerCall.kind = "stopwatch"
    /\ emitted' = Append(emitted, emitStatus(timerCall.saved, "stopwatch"))
    /\ outcome' = Returned(timerCall.call, timerCall.saved)
    /\ timerCall' = NoTimerCall
    /\ UNCHANGED <<countdowns, stopwatches, schedulerRegistry, now, timerCalls,
                   objectIdCounter, expanderVars, callVars, serviceVars, concVars, wsVars>>

\* delete: findOne, then deleteOne({ _id }); nothing is emitted and the
\* registry is left alone
Delete(kind) ==
    /\ timerCall = NoTimerCall
    /\ timerCalls < MaxTimerCalls
    /\ timerCalls' = timerCalls + 1
    /\ emitted' = <<>>
    /\ \E u \in Users, id \in RequestedIds :
          LET found == findOne(kind, u, id)
              call  == [op |-> "delete", kind |-> kind, userId |-> u, id |-> id]
          IN  IF found = {}
              THEN /\ outcome' = [call |-> call, result |-> "NotFoundException",
                                  message |-> NotFoundMessage(kind), value |-> NoTimer]
                   /\ UNCHANGED <<countdowns, stopwatches>>
              ELSE /\ outcome' = Returned(call, NoTimer)
                   /\ IF kind = "countdown"
                      THEN /\ countdowns' = {t \in countdowns : t.id # id}
                           /\ UNCHANGED stopwatches
                      ELSE /\ stopwatches' = {t \in stopwatches : t.id # id}
                           /\ UNCHANGED countdowns
    /\ UNCHANGED <<schedulerRegistry, now, timerCall, objectIdCounter, expanderVars,
                   callVars, serviceVars, concVars, wsVars>>

CountdownDelete == Delete("countdown")

StopwatchDelete == Delete("stopwatch")

\* GET :id
FindOne(kind) ==
    /\ timerCall = NoTimerCall
    /\ timerCalls < MaxTimerCalls
    /\ timerCalls' = timerCalls + 1
    /\ emitted' = <<>>
    /\ \E u \in Users, id \in RequestedIds :
          LET found == findOne(kind, u, id)
              call  == [op |-> "findOne", kind |-> kind, userId |-> u, id |-> id]
          IN  outcome' = IF found = {}
                         THEN [call |-> call, result |-> "NotFoundException",
                               message |-> NotFoundMessage(kind), value |-> NoTimer]
                         ELSE Returned(call, CHOOSE t \in found : TRUE)
    /\ UNCHANGED <<countdowns, stopwatches, schedulerRegistry, now, timerCall,
                   objectIdCounter, expanderVars, callVars, serviceVars, concVars, wsVars>>

CountdownFindOne == FindOne("countdown")

StopwatchFindOne == FindOne("stopwatch")

\* GET: the timers of the caller
FindAll(kind) ==
    /\ timerCall = NoTimerCall
    /\ timerCalls < MaxTimerCalls
    /\ timerCalls' = timerCalls + 1
    /\ emitted' = <<>>
    /\ \E u \in Users :
          outcome' = [call |-> [op |-> "findAll", kind |-> kind, userId |-> u, id |-> 0],
                      result |-> "returned", message |-> "", value |-> NoTimer,
                      list |-> findAll(kind, u)]
    /\ UNCHANGED <<countdowns, stopwatches, schedulerRegistry, now, timerCall,
                   objectIdCounter, expanderVars, callVars, serviceVars, concVars, wsVars>>

CountdownFindAll == FindAll("countdown")

StopwatchFindAll == FindAll("stopwatch")

\* time passes between two calls
Tick ==
    /\ timerCall = NoTimerCall
    /\ now < MaxClock
    /\ now' = now + 1
    /\ UNCHANGED <<countdowns, stopwatches, schedulerRegistry, emitted, timerCall, outcome,
                   timerCalls, objectIdCounter, expanderVars, callVars, serviceVars,
                   concVars, wsVars>>

\* the countdown of the first user as create leaves it, and as a start at
\* time 0 leaves it, each with the scheduler registry that goes with it
InitialCountdowns ==
    {[countdown |-> [id |-> 1, userId |-> "u1", status |-> STOPPED, startedAt |-> Unset,
                     pausedState |-> NullState, duration |-> 2, remainingTime |-> 2],
      registry |-> {}],
     [countdown |-> [id |-> 1, userId |-> "u1", status |-> RUNNING, startedAt |-> 0,
                     pausedState |-> NullState, duration |-> 2, remainingTime |-> 2],
      registry |-> {[name |-> 1, ref |-> 2]}]}

\* a countdown and a stopwatch of the first user
TimerInit ==
    /\ CalendarIdle
    /\ \E initial \in InitialCountdowns :
          /\ countdowns = {initial.countdown}
          /\ schedulerRegistry = initial.registry
    /\ stopwatches = {[id |-> 2, userId |-> "u1", status |-> STOPPED, startedAt |-> Unset,
                       pausedAt |-> Unset, elapsedTime |-> 0, totalElapsedTime |-> 0]}
    /\ objectIdCounter = 3
    /\ emitted = <<>>
    /\ now = 0
    /\ timerCall = NoTimerCall
    /\ outcome = NoOutcome
    /\ timerCalls = 0
    /\ WsIdle

TimerNext ==
    \/ CountdownCreate
    \/ CountdownFindAll
    \/ CountdownFindOne
    \/ CountdownStart
    \/ CountdownPause
    \/ CountdownResume
    \/ CountdownStop
    \/ CountdownDelete
    \/ CountdownAfterSave
    \/ CountdownRegistryThrows
    \/ StopwatchCreate
    \/ StopwatchFindAll
    \/ StopwatchFindOne
    \/ StopwatchStart
    \/ StopwatchPause
    \/ StopwatchResume
    \/ StopwatchStop
    \/ StopwatchDelete
    \/ StopwatchAfterSave
    \/ Tick

TimerSpec == TimerInit /\ [][TimerNext]_vars

\* time passes, and a call that has saved goes on to its end; whether a
\* client makes another call is up to the client
FairTimerSpec ==
    /\ TimerSpec
    /\ WF_vars(Tick)
    /\ WF_vars(CountdownAfterSave \/ CountdownRegistryThrows \/ StopwatchAfterSave)

-----------------------------------------------------------------------------
(* WebSocket connections: AppGateway with PomodoroWsHandler, and            *)
(* TimerGateway.  A socket is a record of its handshake, whether it is      *)
(* connected and the user attached to it.  The pomodoro service is not      *)
(* part of the sources at hand: its lookups are by id and owner and give    *)
(* nothing when no pomodoro matches.                                        *)

\* connections made in one behaviour
MaxSockets == 2

\* join and leave messages in one behaviour
MaxMessages == 1

Gateways == {"app", "timer"}

\* client.user not set
NoUser == ""

\* a handshake field that is not there
Absent == <<>>

\* a handshake token that is not a string
NotAString == <<"(number)">>

\* the token issued to each user
Jwt == [u \in Users |-> IF u = "u1" THEN "jwt-u1" ELSE "jwt-u2"]

\* handshakes: no token; 'Bearer <jwt>' in auth.token; 'Bearer <jwt>' in the
\* authorization header; an expired token in auth.token next to a good
\* header; a token that is no JWT; a token that is no string
Handshakes ==
    {[token |-> Absent, authorization |-> Absent],
     [token |-> <<"Bearer", Jwt["u1"]>>, authorization |-> Absent],
     [token |-> Absent, authorization |-> <<"Bearer", Jwt["u2"]>>],
     [token |-> <<"Bearer", "jwt-u1-expired">>,
      authorization |-> <<"Bearer", Jwt["u1"]>>],
     [token |-> <<"garbage">>, authorization |-> Absent],
     [token |-> NotAString, authorization |-> Absent]}

\* client.handshake.auth.token || client.handshake.headers.authorization
RawToken(h) == IF h.token # Absent THEN h.token ELSE h.authorization

\* raw?.replace exists: raw is undefined or a string
HasReplace(raw) == raw # NotAString

\* raw?.replace(/^Bearer\s+/, '')
StripBearer(raw) ==
    IF Len(raw) > 1 /\ Head(raw) = "Bearer" THEN Tail(raw) ELSE raw

\* jwtService.verify(token) returns a payload
Verifies(token) == \E u \in Users : token = <<Jwt[u]>>

\* payload.id
PayloadId(token) == CHOOSE u \in Users : token = <<Jwt[u]>>

\* a socket as it connects
NewSocket(id, gateway, h) ==
    [id |-> id, gateway |-> gateway, handshake |-> h, connected |-> TRUE, user |-> NoUser]

\* a rejected socket that is left connected
Rejected_StaysConnected(client) == client

\* client.disconnect(true)
Rejected(client) == [client EXCEPT !.connected = FALSE]

\* (client as any).user = payload
Attached(client, u) == [client EXCEPT !.user = u]

\* pomodoroService.findWorking(userId): the working pomodoro of the user
PomodoroService_findWorking(u) ==
    {p \in pomodoros : p.userId = u /\ p.state = "working"}

\* pomodoroService.findOne(id, userId): the pomodoro of that id and owner
PomodoroService_findOne(id, u) == {p \in pomodoros : p.id = id /\ p.userId = u}

\* the ids of a Set in the order they were added (ids grow with time)
RECURSIVE InsertionOrder(_)
InsertionOrder(ids) ==
    IF ids = {} THEN <<>>
    ELSE LET first == CHOOSE i \in ids : \A j \in ids : i <= j
         IN  <<first>> \o InsertionOrder(ids \ {first})

\* the connected sockets among those ids
Live(cs, ids) == {c \in ids : c \in DOMAIN cs /\ cs[c].connected}

\* the connected sockets of a gateway that are in a room
RoomMembers(cs, rs, gateway, room) ==
    {c \in DOMAIN cs : cs[c].connected /\ cs[c].gateway = gateway /\ <<c, room>> \in rs}

\* each of the sockets receives the message
DeliverTo(rcv, targets, msg) ==
    [c \in DOMAIN rcv |-> IF c \in targets THEN Append(rcv[c], msg) ELSE rcv[c]]

\* for (const socketId of ids) server.to(socketId).emit(event, data)
EmitToEach(order, event, data) ==
    [i \in 1..Len(order) |-> [to |-> <<"socket", order[i]>>, event |-> event, data |-> data]]

\* what emitStatus sends of a pomodoro
StatusOf(p) == [_id |-> p.id, state |-> p.state]

\* the state left alone by the gateways
restVars == <<expanderVars, objectIdCounter, callVars, serviceVars, concVars, timerVars>>

\* AppGateway.handleConnection with PomodoroWsHandler.onConnect
AppHandleConnection ==
    /\ socketCounter < MaxSockets
    /\ socketCounter' = socketCounter + 1
    /\ \E h \in Handshakes :
          LET id     == socketCounter + 1
              raw    == RawToken(h)
              token  == StripBearer(raw)
              client == NewSocket(id, "app", h)
          IN  IF ~ HasReplace(raw)
              THEN \* TypeError before the try block: the handler ends there
                   /\ clients' = Append(clients, client)
                   /\ received' = Append(received, <<>>)
                   /\ UNCHANGED <<userSockets, lookups, sent>>
              ELSE IF ~ Verifies(token)
              THEN /\ clients' = Append(clients, Rejected(client))
                   /\ received' = Append(received, <<>>)
                   /\ UNCHANGED <<userSockets, lookups, sent>>
              ELSE LET u       == PayloadId(token)
                       sockets == [userSockets EXCEPT !["app"][u] = {id}]
                       working == PomodoroService_findWorking(u)
                       cs      == Append(clients, Attached(client, u))
                       order   == InsertionOrder(sockets["app"][u])
                   IN  /\ clients' = cs
                       /\ userSockets' = sockets
                       /\ lookups' = Append(lookups, [fn |-> "findWorking", userId |-> u,
                                                      id |-> 0])
                       /\ IF working = {}
                          THEN /\ received' = Append(received, <<>>)
                               /\ UNCHANGED sent
                          ELSE LET pomodoro == CHOOSE p \in working : TRUE
                               IN  /\ sent' = sent \o EmitToEach(order, "pomodoro found",
                                                                 pomodoro)
                                   /\ received' =
                                        DeliverTo(Append(received, <<>>),
                                                  Live(cs, sockets["app"][u]),
                                                  [event |-> "pomodoro found",
                                                   data |-> pomodoro])
    /\ UNCHANGED <<rooms, pomodoros, wsMessages, message, restVars>>

\* TimerGateway.handleConnection
TimerHandleConnection ==
    /\ socketCounter < MaxSockets
    /\ socketCounter' = socketCounter + 1
    /\ \E h \in Handshakes :
          LET id     == socketCounter + 1
              raw    == RawToken(h)
              token  == StripBearer(raw)
              client == NewSocket(id, "timer", h)
          IN  IF ~ HasReplace(raw)
              THEN /\ clients' = Append(clients, client)
                   /\ UNCHANGED userSockets
              ELSE IF ~ Verifies(token)
              THEN /\ clients' = Append(clients, Rejected(client))
                   /\ UNCHANGED userSockets
              ELSE /\ clients' = Append(clients, Attached(client, PayloadId(token)))
                   /\ userSockets' =
                        [userSockets EXCEPT !["timer"][PayloadId(token)] = {id}]
    /\ received' = Append(received, <<>>)
    /\ UNCHANGED <<rooms, pomodoros, lookups, sent, wsMessages, message, restVars>>

\* the client goes away: the socket leaves its rooms; handleDisconnect only
\* logs
HandleDisconnect ==
    /\ \E c \in DOMAIN clients :
          /\ clients[c].connected
          /\ clients' = [clients EXCEPT ![c].connected = FALSE]
          /\ rooms' = {r \in rooms : r[1] # c}
    /\ UNCHANGED <<received, userSockets, pomodoros, lookups, sent, socketCounter,
                   wsMessages, message, restVars>>

\* the id strings a client may send: the 24 hex digits of an ObjectId, in
\* lower case as the database prints them or in upper case; the ObjectIds
\* are those of the stored pomodoros and one more
JoinIds == {[hex |-> n, uppercase |-> b] : n \in 1..3, b \in BOOLEAN}

\* new mongoose.Types.ObjectId(data.id): the case of the digits is immaterial
ObjectId(str) == str.hex

\* pomodoro.id.toString(): the digits in lower case
toString(oid) == [hex |-> oid, uppercase |-> FALSE]

\* the sockets in the room emitStatus emits to, when it runs: client.join of
\* the room named by the message came first
StatusRecipients(c, joined, room) ==
    RoomMembers(clients, rooms \cup {<<c, joined>>}, "app", room)

\* 'pomodoro:join' from a socket with a user: PomodoroWsHandler.handleJoin
PomodoroJoin ==
    /\ wsMessages < MaxMessages
    /\ wsMessages' = wsMessages + 1
    /\ \E c \in DOMAIN clients, P \in JoinIds :
          /\ clients[c].connected
          /\ clients[c].gateway = "app"
          /\ clients[c].user # NoUser
          /\ message' = [event |-> "pomodoro:join", data |-> [id |-> P], client |-> c]
          /\ LET u     == clients[c].user
                 found == PomodoroService_findOne(ObjectId(P), u)
             IN  /\ lookups' = Append(lookups, [fn |-> "findOne", userId |-> u,
                                                id |-> ObjectId(P)])
                 /\ IF found = {}
                    THEN /\ sent' = Append(sent, [to |-> <<"socket", c>>, event |-> "error",
                                                  data |-> "Pomodoro not found"])
                         /\ received' = DeliverTo(received, {c},
                                                  [event |-> "error",
                                                   data |-> "Pomodoro not found"])
                         /\ UNCHANGED rooms
                    ELSE LET pomodoro == CHOOSE p \in found : TRUE
                         IN  /\ rooms' = rooms \cup {<<c, P>>}
                             /\ sent' = Append(sent, [to |-> <<"room",
                                                              toString(pomodoro.id)>>,
                                                      event |-> "status",
                                                      data |-> StatusOf(pomodoro)])
                             /\ received' = DeliverTo(received,
                                                      StatusRecipients(c, P,
                                                          toString(pomodoro.id)),
                                                      [event |-> "status",
                                                       data |-> StatusOf(pomodoro)])
    /\ UNCHANGED <<clients, userSockets, pomodoros, socketCounter, restVars>>

\* 'pomodoro:join' from a socket without a user: user.id throws before the
\* lookup is made
PomodoroJoinWithoutUser ==
    /\ wsMessages < MaxMessages
    /\ wsMessages' = wsMessages + 1
    /\ \E c \in DOMAIN clients, P \in JoinIds :
          /\ clients[c].connected
          /\ clients[c].gateway = "app"
          /\ clients[c].user = NoUser
          /\ message' = [event |-> "pomodoro:join", data |-> [id |-> P], client |-> c]
          /\ received' = DeliverTo(received, {c},
                                   [event |-> "exception", data |-> "Internal server error"])
    /\ UNCHANGED <<clients, rooms, userSockets, pomodoros, lookups, sent, socketCounter,
                   restVars>>

\* 'pomodoro:leave': PomodoroWsHandler.handleLeave
PomodoroLeave ==
    /\ wsMessages < MaxMessages
    /\ wsMessages' = wsMessages + 1
    /\ \E c \in DOMAIN clients, P \in JoinIds :
          /\ clients[c].connected
          /\ clients[c].gateway = "app"
          /\ clients[c].user # NoUser
          /\ message' = [event |-> "pomodoro:leave", data |-> [id |-> P], client |-> c]
          /\ rooms' = rooms \ {<<c, P>>}
    /\ UNCHANGED <<clients, received, userSockets, pomodoros, lookups, sent, socketCounter,
                   restVars>>

\* the pomodoros stored: one working pomodoro of the first user, and with it
\* an idle one of the second
PomodoroStores ==
    {{[id |-> 1, userId |-> "u1", state |-> "working"]},
     {[id |-> 1, userId |-> "u1", state |-> "working"],
      [id |-> 2, userId |-> "u2", state |-> "idle"]}}

WsInit ==
    /\ CalendarIdle
    /\ objectIdCounter = 1
    /\ TimersIdle
    /\ clients = <<>>
    /\ rooms = {}
    /\ received = <<>>
    /\ userSockets = [g \in Gateways |-> [u \in Users |-> {}]]
    /\ pomodoros \in PomodoroStores
    /\ lookups = <<>>
    /\ sent = <<>>
    /\ socketCounter = 0
    /\ wsMessages = 0
    /\ message = NoMessage

WsNext ==
    \/ AppHandleConnection
    \/ TimerHandleConnection
    \/ HandleDisconnect
    \/ PomodoroJoin
    \/ PomodoroJoinWithoutUser
    \/ PomodoroLeave

WsSpec == WsInit /\ [][WsNext]_vars

-----------------------------------------------------------------------------
(* Vocabulary of the properties *)

seed == baseEvent.startDate

rule == baseEvent.recurrence

\* the most occurrences one expansion may emit: the rule's maxOccurrences,
\* or the default ceiling when the rule sets none
OccurrenceCap ==
    IF rule.maxOccurrences # 0 THEN rule.maxOccurrences ELSE DefaultMaxOccurrences

\* start instants of the occurrences emitted so far
Emitted == {events[i].startDate : i \in DOMAIN events}

\* instants that share the seed's time of day, from the seed up to instant t
SeedAligned(t) ==
    {addDays(seed, n) : n \in 0..Max(0, DayOf(t) - DayOf(seed))}

\* instant t is an occurrence of the rule's own timeline, whatever the window
OnTimeline(t) ==
    /\ t >= seed
    /\ HourOf(t) = HourOf(seed)
    /\ CASE rule.frequency = "daily" ->
               (DayOf(t) - DayOf(seed)) % rule.interval = 0
         [] rule.frequency = "weekly" ->
               /\ ((DayOf(t) - DayOf(seed)) \div DaysPerWeek) % rule.interval = 0
               /\ IF rule.daysOfWeek = {}
                  THEN (DayOf(t) - DayOf(seed)) % DaysPerWeek = 0
                  ELSE getDay(t) \in rule.daysOfWeek
         [] rule.frequency = "monthly" ->
               /\ (MonthIndex(t) - MonthIndex(seed)) % rule.interval = 0
               /\ getDate(t) = Min(getDate(seed), DaysInMonth(MonthIndex(t)))

\* the rule's occurrences from the seed up to instant t
Timeline(t) == {c \in SeedAligned(t) : c <= t /\ OnTimeline(c)}

\* the first n instants of a set
FirstN(S, n) == {d \in S : Cardinality({x \in S : x < d}) < n}

-----------------------------------------------------------------------------
(* Properties *)

\* C1: for every window with rangeStart <= rangeEnd, every emitted occurrence
\* starts within [rangeStart, rangeEnd], both bounds included, and not before
\* the base event's startDate.
C1_WithinWindowAndAfterSeed ==
    rangeStart <= rangeEnd =>
        \A s \in Emitted : rangeStart <= s /\ s <= rangeEnd /\ s >= seed

\* C1 witness: a finished expansion whose window opens after the seed and
\* that emitted an occurrence exactly on a window bound.
C1_Witness ==
    /\ pc = "done"
    /\ rangeStart <= rangeEnd
    /\ seed < rangeStart
    /\ rangeEnd \in Emitted

\* C2: with maxOccurrences = N, an occurrence is emitted only if it is among
\* the first N occurrences of the rule's timeline counted from the seed.
C2_CountedFromSeed ==
    rule.maxOccurrences # 0 =>
        \A s \in Emitted : Cardinality(Timeline(s)) <= rule.maxOccurrences

\* C3: with endDate = E, no emitted occurrence starts after E, whatever the
\* window.
C3_NothingAfterEndDate ==
    rule.endDate # NoDate => \A s \in Emitted : s <= rule.endDate

\* C3 witness: a finished expansion whose window reaches beyond the endDate,
\* that emitted occurrences and stopped with the cursor still inside the window.
C3_Witness ==
    /\ pc = "done"
    /\ rule.endDate # NoDate
    /\ rule.endDate < rangeEnd
    /\ Emitted # {}
    /\ currentDate <= rangeEnd
    /\ occurrenceCount < OccurrenceCap

\* C4: every loop iteration moves the cursor forward by at least a day, and
\* every expansion leaves the loop.
C4_Terminates ==
    /\ [][(pc = "loop" /\ pc' = "loop") =>
             currentDate' >= currentDate + HoursPerDay]_vars
    /\ <>(pc = "done")

\* C4 witness: an expansion of a rule with neither endDate nor maxOccurrences
\* over the longest window has finished.
C4_Witness ==
    /\ pc = "done"
    /\ rule.endDate = NoDate
    /\ rule.maxOccurrences = 0
    /\ rangeEnd - seed > 60 * HoursPerDay
    /\ Len(events) > 10

\* Mondays and Wednesdays at the seed's time of day, from the later of seed
\* and rangeStart up to rangeEnd and, when set, the rule's endDate
MonWedInWindow ==
    {d \in SeedAligned(rangeEnd) :
        /\ getDay(d) \in {MONDAY, WEDNESDAY}
        /\ Max(seed, rangeStart) <= d /\ d <= rangeEnd
        /\ rule.endDate # NoDate => d <= rule.endDate}

IsMonWedRule ==
    rule.frequency = "weekly" /\ rule.interval = 1 /\ rule.daysOfWeek = {MONDAY, WEDNESDAY}

\* the documented weekly example, queried up to instant re
MonWedExample(re) ==
    /\ seed = Date(2024, 1, 15, 9)
    /\ rule = [frequency |-> "weekly", interval |-> 1,
               daysOfWeek |-> {MONDAY, WEDNESDAY}, endDate |-> NoDate,
               maxOccurrences |-> 20]
    /\ rangeStart = Date(2024, 1, 1, 0)
    /\ rangeEnd = re

C6_DailyEveryKDays ==
    rule.frequency = "daily" =>
        /\ \A i \in 1..(Len(events) - 1) :
              events[i + 1].startDate - events[i].startDate
                  = rule.interval * HoursPerDay
        /\ \A s \in Emitted : (s - seed) % (rule.interval * HoursPerDay) = 0

\* C6 witness: a daily rule with interval > 1 whose window opens after the
\* seed, not a multiple of the interval after it, has emitted occurrences.
C6_Witness ==
    /\ pc = "done"
    /\ rule.frequency = "daily"
    /\ rule.interval > 1
    /\ seed < rangeStart
    /\ (rangeStart - seed) % (rule.interval * HoursPerDay) # 0
    /\ Len(events) >= 2

\* instant of the given day and hour in month mi
AtMonth(mi, day, hour) == (MonthStart[mi] + day - 1) * HoursPerDay + hour

\* the instants a multiple of interval months after the seed, on the seed's
\* day of month and time of day, within the window and up to endDate
MonthlyInWindow ==
    {t \in {AtMonth(MonthIndex(seed) + n * rule.interval, getDate(seed), HourOf(seed)) :
                n \in 0..Max(0, MonthIndex(Max(seed, rangeEnd)) - MonthIndex(seed))} :
        /\ Max(seed, rangeStart) <= t /\ t <= rangeEnd
        /\ rule.endDate # NoDate => t <= rule.endDate}

IsPlainMonthlyRule == rule.frequency = "monthly" /\ getDate(seed) <= 28

\* the documented monthly example
MonthlyExample ==
    /\ seed = Date(2024, 1, 1, 14)
    /\ rule = [frequency |-> "monthly", interval |-> 1, daysOfWeek |-> {},
               endDate |-> Date(2024, 12, 31, 23), maxOccurrences |-> 0]
    /\ rangeStart = Date(2024, 1, 1, 0)
    /\ rangeEnd = Date(2024, 3, 31, 0)

\* C7 as stated: a monthly rule anchored on a day <= 28 yields exactly the
\* instants of the window that are a multiple of interval months after the
\* seed, up to endDate.
C7_AsStated ==
    (pc = "done" /\ IsPlainMonthlyRule) => Emitted = MonthlyInWindow

\* C7 amended: a monthly rule anchored on a day <= 28 yields exactly the
\* earliest instants of the window that are a multiple of interval months
\* after the seed, up to endDate, at most maxOccurrences of them (100 when
\* unset); the example yields Jan 1, Feb 1 and Mar 1.
C7_MonthlyExactly ==
    (pc = "done" /\ IsPlainMonthlyRule) =>
        /\ Emitted = FirstN(MonthlyInWindow, OccurrenceCap)
        /\ MonthlyExample => Emitted = {Date(2024, m, 1, 14) : m \in {1, 2, 3}}

\* C7 witness: the monthly example has finished with three occurrences.
C7_Witness ==
    /\ pc = "done"
    /\ MonthlyExample
    /\ Len(events) = 3

IsLateAnchorRule == rule.frequency = "monthly" /\ getDate(seed) >= 29

\* the day of month a late-anchored rule is expected on in month mi: the
\* anchor day where the month has it, the month's last day where it has not
ExpectedDay(mi) ==
    IF DaysInMonth(mi) >= getDate(seed) THEN getDate(seed) ELSE DaysInMonth(mi)

\* one instant per month, a multiple of interval months after the seed, on
\* the expected day, within the window and up to endDate
LateAnchorInWindow ==
    {t \in {AtMonth(MonthIndex(seed) + n * rule.interval,
                    ExpectedDay(MonthIndex(seed) + n * rule.interval), HourOf(seed)) :
                n \in 0..Max(0, MonthIndex(Max(seed, rangeEnd)) - MonthIndex(seed))} :
        /\ Max(seed, rangeStart) <= t /\ t <= rangeEnd
        /\ rule.endDate # NoDate => t <= rule.endDate}

\* C8: for a monthly rule anchored on day 29, 30 or 31 one clamp policy is
\* applied to every month: a step lands in the month that is interval months
\* later and in no other, the cursor and every occurrence are on the anchor
\* day where the month has it and on the month's last day where it has not
\* (so the anchor day is back after a clamped month), and every such month
\* of the window yields its occurrence.
C8_ClampConsistent ==
    /\ [](IsLateAnchorRule =>
            \A t \in Emitted \cup {currentDate} :
                /\ getDate(t) = ExpectedDay(MonthIndex(t))
                /\ HourOf(t) = HourOf(seed))
    /\ [][(IsLateAnchorRule /\ pc = "loop" /\ pc' = "loop") =>
             MonthIndex(currentDate') = MonthIndex(currentDate) + rule.interval]_vars
    /\ []((IsLateAnchorRule /\ pc = "done") =>
            Emitted = FirstN(LateAnchorInWindow, OccurrenceCap))

\* C8 witness: a rule anchored on Jan 31 has emitted the last day of the
\* 28-day February, then Mar 31, then Apr 30.
C8_Witness ==
    /\ pc = "done"
    /\ rule.frequency = "monthly"
    /\ rule.interval = 1
    /\ seed = Date(2025, 1, 31, 10)
    /\ {Date(2025, 2, 28, 10), Date(2025, 3, 31, 10), Date(2025, 4, 30, 10)}
            \subseteq Emitted

\* C9: for a weekly rule with interval k > 1 an occurrence is emitted only in
\* a week whose number counted from the seed is a multiple of k; without
\* daysOfWeek the occurrences are exactly 7 * k days apart, counted from the
\* seed.
C9_EveryKthWeek ==
    (rule.frequency = "weekly" /\ rule.interval > 1) =>
        /\ \A s \in Emitted :
              ((DayOf(s) - DayOf(seed)) \div DaysPerWeek) % rule.interval = 0
        /\ rule.daysOfWeek = {} =>
              /\ \A s \in Emitted :
                    (s - seed) % (DaysPerWeek * rule.interval * HoursPerDay) = 0
              /\ \A i \in 1..(Len(events) - 1) :
                    events[i + 1].startDate - events[i].startDate
                        = DaysPerWeek * rule.interval * HoursPerDay

\* C9 witness: rules with interval 2, with and without daysOfWeek, have
\* emitted occurrences in several weeks.
C9_Witness ==
    /\ pc = "done"
    /\ rule.frequency = "weekly"
    /\ rule.interval = 2
    /\ seed = Date(2024, 1, 1, 14)
    /\ \/ rule.daysOfWeek = {} /\
            {seed, addDays(seed, 14), addDays(seed, 28)} \subseteq Emitted
       \/ rule.daysOfWeek = {MONDAY, WEDNESDAY} /\
            {seed, addDays(seed, 2), addDays(seed, 14), addDays(seed, 16)}
                \subseteq Emitted

Content(e) ==
    [userId |-> e.userId, title |-> e.title, recurrence |-> e.recurrence,
     startDate |-> e.startDate, isRecurringInstance |-> e.isRecurringInstance,
     parentEventId |-> e.parentEventId]

Contents(occurrences) == [i \in DOMAIN occurrences |-> Content(occurrences[i])]

\* C11: the occurrences of one expansion are finitely many and strictly
\* ascending by startDate.
C11_StrictlyAscending ==
    /\ Len(events) <= OccurrenceCap
    /\ \A i \in 1..(Len(events) - 1) :
          events[i].startDate < events[i + 1].startDate

\* C11 witness: an expansion has finished with several occurrences.
C11_Witness ==
    /\ pc = "done"
    /\ Len(events) >= 3

\* C12: an expansion run again with the same base event and window returns
\* the same start dates and copied fields in the same order as the run
\* before.
C12_SameResultAgain ==
    (pc = "done" /\ calls > 0) => Contents(events) = Contents(previous)

\* C12 witness: a second expansion of a rule capped by maxOccurrences has
\* finished with occurrences.
C12_Witness ==
    /\ pc = "done"
    /\ calls > 0
    /\ rule.maxOccurrences = 2
    /\ Len(events) = 2

\* C13: no step of an expansion changes the base event.
C13_BaseEventUnchanged == [][baseEvent' = baseEvent]_vars

\* C13 witness: expansions have moved the cursor off the seed and emitted
\* occurrences that start after the seed.
C13_Witness ==
    /\ pc = "done"
    /\ calls > 0
    /\ currentDate > seed
    /\ \E s \in Emitted : s > seed

\* C14: every emitted occurrence is tagged isRecurringInstance, names the
\* base event as its parent, carries the base event's other attributes
\* unchanged, and has an id that is neither the base event's nor another
\* occurrence's of the same expansion.
C14_OccurrenceFields ==
    \A i \in DOMAIN events :
        /\ events[i].isRecurringInstance = TRUE
        /\ events[i].parentEventId = baseEvent.id
        /\ events[i].userId = baseEvent.userId
        /\ events[i].title = baseEvent.title
        /\ events[i].recurrence = baseEvent.recurrence
        /\ events[i].id # baseEvent.id
        /\ \A j \in DOMAIN events : j # i => events[j].id # events[i].id

\* C14 witness: an expansion has finished with several occurrences.
C14_Witness ==
    /\ pc = "done"
    /\ Len(events) >= 2
    /\ events[1].id # events[2].id

\* C15: when the window ends before the base event starts, nothing is
\* emitted.
C15_WindowBeforeSeed ==
    rangeEnd < seed => events = <<>>

\* C15 witness: an expansion over a window that ends before the seed, for a
\* rule with an endDate after it, has finished.
C15_Witness ==
    /\ pc = "done"
    /\ rangeStart <= rangeEnd
    /\ rangeEnd < seed
    /\ rule.endDate # NoDate

\* C16: with rangeStart > rangeEnd the expansion leaves the loop and emits
\* nothing.
C16_InvertedWindow ==
    /\ [](rangeStart > rangeEnd => events = <<>>)
    /\ (rangeStart > rangeEnd) => <>(pc = "done")

\* C16 witness: an expansion over an inverted window has gone through loop
\* iterations and finished.
C16_Witness ==
    /\ pc = "done"
    /\ rangeStart > rangeEnd
    /\ currentDate > seed

\* instant t is an occurrence of the timeline of a rule rec that starts at
\* instant start and recurs every k units
OnTimelineOf(t, start, rec, k) ==
    /\ t >= start
    /\ HourOf(t) = HourOf(start)
    /\ CASE rec.frequency = "daily" ->
               (DayOf(t) - DayOf(start)) % k = 0
         [] rec.frequency = "weekly" ->
               /\ ((DayOf(t) - DayOf(start)) \div DaysPerWeek) % k = 0
               /\ IF rec.daysOfWeek = {}
                  THEN (DayOf(t) - DayOf(start)) % DaysPerWeek = 0
                  ELSE getDay(t) \in rec.daysOfWeek
         [] rec.frequency = "monthly" ->
               /\ (MonthIndex(t) - MonthIndex(start)) % k = 0
               /\ getDate(t) = Min(getDate(start), DaysInMonth(MonthIndex(t)))

\* the timeline's occurrences that start in the window [rs, re] and not
\* after the rule's endDate
TimelineInWindow(start, rec, k, rs, re) ==
    {t \in {addDays(start, n) : n \in 0..Max(0, DayOf(re) - DayOf(start))} :
        /\ OnTimelineOf(t, start, rec, k)
        /\ rs <= t /\ t <= re
        /\ rec.endDate # NoDate => t <= rec.endDate}

\* what one expansion is expected to emit: the earliest occurrences of the
\* window, at most maxOccurrences of them, or the default ceiling
ExpectedStarts(start, rec, k, rs, re) ==
    FirstN(TimelineInWindow(start, rec, k, rs, re),
           IF rec.maxOccurrences # 0 THEN rec.maxOccurrences ELSE DefaultMaxOccurrences)

\* the rule of the expansion under way has an absent (0) or negative interval
NonPositiveInterval == pc \in {"loop", "done"} /\ rule.interval <= 0

\* C17: a rule whose interval is absent, zero or negative is expanded as the
\* same rule with interval 1: the expansion ends, the cursor moves forward
\* in every iteration, and the output is the output for interval 1.
C17_NonPositiveIntervalIsOne ==
    /\ [](NonPositiveInterval /\ pc = "done" =>
            /\ Emitted = ExpectedStarts(seed, rule, 1, rangeStart, rangeEnd)
            /\ Cardinality(Emitted) = Len(events))
    /\ [][NonPositiveInterval /\ pc' = "loop" => currentDate' > currentDate]_vars
    /\ (NonPositiveInterval /\ pc = "loop") ~> (pc = "done")

\* C17 witness: the expansion of a stored rule with a non-positive interval
\* has ended with several occurrences.
C17_Witness ==
    /\ NonPositiveInterval
    /\ pc = "done"
    /\ Len(events) > 1

\* the last request carried a rule with a frequency outside the known ones
UnknownFrequencyRequested ==
    /\ request # NoRequest
    /\ HasRecurrence(request)
    /\ request.recurrence.frequency \notin Frequencies

\* C18: a rule with a frequency outside {daily, weekly, monthly} is answered
\* with 400 at creation, is never stored, and so is never expanded into an
\* empty result.
C18_UnknownFrequencyRejected ==
    /\ UnknownFrequencyRequested => response.status = BadRequest
    /\ \A e \in store : HasRecurrence(e) => e.recurrence.frequency \in Frequencies
    /\ pc \in {"loop", "done"} => rule.frequency \in Frequencies

\* C18 witness: a request with an unknown frequency has been answered and
\* a range query has been served after it.
C18_Witness ==
    /\ UnknownFrequencyRequested
    /\ response.status = BadRequest
    /\ pc = "returned"

\* C19: a rule with neither endDate nor maxOccurrences never emits more than
\* the ceiling of 100 occurrences in one expansion, and an expansion over a
\* window that holds more returns the first 100 of them.
C19_DefaultCeiling ==
    (rule.endDate = NoDate /\ rule.maxOccurrences = 0) =>
        /\ Len(events) <= DefaultMaxOccurrences
        /\ pc = "done" =>
              /\ Emitted = ExpectedStarts(seed, rule, rule.interval, rangeStart, rangeEnd)
              /\ Cardinality(Emitted) = Len(events)

\* C19 witness: an expansion has stopped at the ceiling with the cursor
\* still inside the window.
C19_Witness ==
    /\ pc = "done"
    /\ rule.endDate = NoDate
    /\ rule.maxOccurrences = 0
    /\ Len(events) = DefaultMaxOccurrences
    /\ currentDate <= rangeEnd
    /\ Cardinality(TimelineInWindow(seed, rule, rule.interval, rangeStart, rangeEnd))
            > DefaultMaxOccurrences

\* the step of a rule: its interval, 1 when that is not positive
StepOf(rec) == IF rec.interval > 0 THEN rec.interval ELSE 1

\* the user's stored events without recurrence that start in the window
SinglesInRange ==
    {e \in store : /\ e.userId = userId
                   /\ ~e.isRecurringInstance
                   /\ ~HasRecurrence(e)
                   /\ rangeStart <= e.startDate
                   /\ e.startDate <= rangeEnd}

\* the user's stored base events with a recurrence
RecurringBases ==
    {e \in store : e.userId = userId /\ ~e.isRecurringInstance /\ HasRecurrence(e)}

\* positions of the answer that hold stored events, and occurrences of base b
StoredPositions == {i \in DOMAIN allEvents : ~allEvents[i].isRecurringInstance}

OccurrencePositions(b) ==
    {i \in DOMAIN allEvents :
        allEvents[i].isRecurringInstance /\ allEvents[i].parentEventId = b.id}

CallFrame(c) == IF c = active THEN Frame ELSE frames[c]

\* the members of a set of instants, earliest first
Ascending(S) ==
    [i \in 1..Cardinality(S) |-> CHOOSE d \in S : Cardinality({x \in S : x < d}) = i - 1]

\* what a call with the parameters of frame f returns when it runs alone
AloneResult(f) ==
    Ascending(ExpectedStarts(f.baseEvent.startDate, f.baseEvent.recurrence,
                             StepOf(f.baseEvent.recurrence), f.rangeStart, f.rangeEnd))

\* C21: calls of the expander that run interleaved, for the same or for
\* different base events and windows, each return what they return when run
\* alone: the same start dates in the same order, every occurrence a copy
\* of the call's own base event.
C21_InterleavedAsAlone ==
    \A c \in ConcurrentCalls :
        LET f == CallFrame(c)
        IN  f.pc = "done" =>
              /\ [i \in DOMAIN f.events |-> f.events[i].startDate] = AloneResult(f)
              /\ \A i \in DOMAIN f.events :
                    /\ f.events[i].parentEventId = f.baseEvent.id
                    /\ f.events[i].userId = f.baseEvent.userId
                    /\ f.events[i].title = f.baseEvent.title
                    /\ f.events[i].recurrence = f.baseEvent.recurrence

\* C21 witness: two calls for different base events have both ended after
\* the second one ran while the first was suspended in the middle of its
\* loop, and both returned occurrences.
C21_Witness ==
    /\ \A c \in ConcurrentCalls : CallFrame(c).pc = "done" /\ CallFrame(c).events # <<>>
    /\ \E c, d \in ConcurrentCalls : CallFrame(c).baseEvent.id # CallFrame(d).baseEvent.id
    /\ \E c, d \in ConcurrentCalls :
          /\ Len(CallFrame(c).events) > 1
          /\ CallFrame(c).events[1].id < CallFrame(d).events[1].id
          /\ CallFrame(d).events[1].id < CallFrame(c).events[Len(CallFrame(c).events)].id

\* the weekday (0 = Sunday .. 6 = Saturday) a daysOfWeek value names, in the
\* table as in the DayOfWeek enum
NamedWeekday(d) == d % DaysPerWeek

\* C22: every value of daysOfWeek yields occurrences on the weekday it
\* names, whether it is taken from the DayOfWeek enum (1..7) or from the
\* table of day of week values (0..6): the expansion of a weekly rule with
\* daysOfWeek emits the occurrences of the named weekdays.
C22_NamedWeekdays ==
    (pc = "done" /\ rule.frequency = "weekly" /\ rule.daysOfWeek # {}) =>
        Emitted = ExpectedStarts(seed,
                                 [rule EXCEPT !.daysOfWeek =
                                     {NamedWeekday(d) : d \in rule.daysOfWeek}],
                                 StepOf(rule), rangeStart, rangeEnd)

TimerKinds == {"countdown", "stopwatch"}

\* the call that began last: its operation, kind, caller and timer id
LastCall == IF timerCall # NoTimerCall THEN timerCall.call ELSE outcome.call

\* this step is the beginning of a call
CallBegins == timerCalls' = timerCalls + 1

\* the stored timer of that kind and id, whoever owns it
Stored(kind, id) == {t \in Collection(kind) : t.id = id}

\* the operation finds its guard failing on a timer of that status
GuardFails(op, status) ==
    \/ op = "start" /\ status = RUNNING
    \/ op = "pause" /\ status # RUNNING
    \/ op = "resume" /\ status # PAUSED
    \/ op = "stop" /\ status = STOPPED

\* C24: for countdown and stopwatch alike, start on a RUNNING timer, pause on
\* a timer that is not RUNNING, resume on a timer that is not PAUSED and stop
\* on a STOPPED timer, called by the owner, return the stored timer as it is,
\* save nothing, emit no 'status' event and leave the scheduler registry
\* alone
C24_GuardFailIsNoOp ==
    [][CallBegins =>
         \A t \in countdowns \cup stopwatches :
            (/\ LastCall'.op \in {"start", "pause", "resume", "stop"}
             /\ t \in Collection(LastCall'.kind)
             /\ t.id = LastCall'.id
             /\ t.userId = LastCall'.userId
             /\ GuardFails(LastCall'.op, t.status))
            => /\ timerCall' = NoTimerCall
               /\ outcome'.result = "returned"
               /\ outcome'.value = t
               /\ countdowns' = countdowns
               /\ stopwatches' = stopwatches
               /\ emitted' = <<>>
               /\ schedulerRegistry' = schedulerRegistry]_vars

\* a start on the running countdown of the caller has returned it, with
\* nothing emitted
C24_Witness ==
    /\ timerCall = NoTimerCall
    /\ outcome # NoOutcome
    /\ outcome.call.op = "start"
    /\ outcome.call.kind = "countdown"
    /\ outcome.result = "returned"
    /\ outcome.value \in countdowns
    /\ outcome.value.status = RUNNING
    /\ emitted = <<>>
    /\ schedulerRegistry # {}

\* the status a call that changes the timer leaves
StatusAfter(op) ==
    CASE op \in {"start", "resume"} -> RUNNING
      [] op = "pause" -> PAUSED
      [] op \in {"stop", "create"} -> STOPPED

\* C25: the status of every countdown and stopwatch is STOPPED, RUNNING or
\* PAUSED; a new timer is STOPPED; a start or resume that changes the timer
\* leaves it RUNNING, a pause PAUSED, a stop STOPPED; a timer becomes PAUSED
\* only from RUNNING, and resume changes the status only of a PAUSED timer
C25_StatusMachine ==
    /\ [](\A t \in countdowns \cup stopwatches : t.status \in {STOPPED, RUNNING, PAUSED})
    /\ [][\A kind \in TimerKinds : \A new \in Collection(kind)' :
            /\ Stored(kind, new.id) = {} => new.status = STOPPED
            /\ (timerCall' # NoTimerCall /\ timerCall'.call.id = new.id
                   /\ timerCall'.kind = kind)
               => new.status = StatusAfter(timerCall'.op)
            /\ \A old \in Stored(kind, new.id) :
                  /\ (new.status = PAUSED /\ old.status # PAUSED)
                     => old.status = RUNNING
                  /\ (CallBegins /\ LastCall'.op = "resume" /\ new.status # old.status)
                     => old.status = PAUSED]_vars

\* a pause of a running stopwatch has returned it PAUSED
C25_Witness ==
    /\ timerCall = NoTimerCall
    /\ outcome # NoOutcome
    /\ outcome.call.op = "pause"
    /\ outcome.call.kind = "stopwatch"
    /\ outcome.result = "returned"
    /\ emitted # <<>>
    /\ outcome.value \in stopwatches
    /\ outcome.value.status = PAUSED

\* C26: stop on a RUNNING or PAUSED timer of the caller stores a countdown
\* with status STOPPED, startedAt null, pausedState null and remainingTime =
\* duration, the remaining time create gives it; a stopwatch with status
\* STOPPED, startedAt null, pausedAt null, elapsedTime 0 and
\* totalElapsedTime 0
C26_StopResets ==
    [][(CallBegins /\ LastCall'.op = "stop") =>
         \A kind \in TimerKinds : \A old \in Stored(kind, LastCall'.id) :
            (/\ kind = LastCall'.kind
             /\ old.userId = LastCall'.userId
             /\ old.status \in {RUNNING, PAUSED})
            => \E new \in Collection(kind)' :
                  /\ Collection(kind)' = (Collection(kind) \ {old}) \cup {new}
                  /\ new.id = old.id
                  /\ new.userId = old.userId
                  /\ new.status = STOPPED
                  /\ new.startedAt = Null
                  /\ IF kind = "countdown"
                     THEN /\ new.pausedState = NullState
                          /\ new.duration = old.duration
                          /\ new.remainingTime = new.duration
                          /\ new.remainingTime
                               = CountdownCreated(new.userId, new.duration).remainingTime
                     ELSE /\ new.pausedAt = Null
                          /\ new.elapsedTime = 0
                          /\ new.totalElapsedTime = 0]_vars

\* a paused countdown with less than its duration left has been stopped and
\* has its whole duration again
C26_Witness ==
    /\ outcome # NoOutcome
    /\ outcome.call.op = "stop"
    /\ outcome.call.kind = "countdown"
    /\ now > 0
    /\ \E c \in countdowns :
          /\ c.id = outcome.call.id
          /\ c.status = STOPPED
          /\ c.startedAt = Null
          /\ c.remainingTime = c.duration
          /\ c.duration > 0
    /\ outcome.result = "Error"

\* C27: findOne, start, pause, resume, stop and delete by a user on an id
\* that no timer of that kind has, or that a timer of another user has,
\* raise NotFound with 'Countdown not found' / 'Stopwatch not found' and
\* leave the stored timers, the scheduler registry and the emitted events as
\* they are; findAll returns only timers of the caller
C27_NotFoundAndOwnership ==
    [][CallBegins =>
         /\ (/\ LastCall'.op \in {"findOne", "start", "pause", "resume", "stop", "delete"}
             /\ \A t \in Stored(LastCall'.kind, LastCall'.id) :
                   t.userId # LastCall'.userId)
            => /\ timerCall' = NoTimerCall
               /\ outcome'.result = "NotFoundException"
               /\ outcome'.message = IF LastCall'.kind = "countdown"
                                     THEN "Countdown not found"
                                     ELSE "Stopwatch not found"
               /\ countdowns' = countdowns
               /\ stopwatches' = stopwatches
               /\ schedulerRegistry' = schedulerRegistry
               /\ emitted' = <<>>
         /\ LastCall'.op = "findAll"
            => /\ outcome'.list \subseteq Collection(LastCall'.kind)
               /\ \A t \in outcome'.list : t.userId = LastCall'.userId]_vars

\* the second user asked to stop the running countdown of the first and got
\* NotFound
C27_Witness ==
    /\ outcome # NoOutcome
    /\ outcome.call.op = "stop"
    /\ outcome.call.kind = "countdown"
    /\ outcome.call.userId = "u2"
    /\ outcome.result = "NotFoundException"
    /\ outcome.message = "Countdown not found"
    /\ \E c \in countdowns :
          c.id = outcome.call.id /\ c.userId = "u1" /\ c.status = RUNNING

\* a call that saved a timer comes to its end in this step
ChangingCallEnds == timerCall # NoTimerCall /\ timerCall' = NoTimerCall

\* C28: every create, start, pause, resume or stop that changes a timer
\* emits exactly one 'status' event, with the saved timer, to the room
\* '<type>:<timerId>', and not before the save has completed; delete emits
\* nothing
C28_OneStatusAfterSave ==
    [][/\ ChangingCallEnds =>
            \E saved \in Stored(timerCall.kind, timerCall.call.id) :
               emitted' = <<[room |-> <<timerCall.kind, timerCall.call.id>>,
                             event |-> "status", data |-> saved]>>
       /\ CallBegins => emitted' = <<>>
       /\ (CallBegins /\ LastCall'.op = "delete")
          => timerCall' = NoTimerCall /\ emitted' = <<>>]_vars

\* a 'pomodoro:join' of a socket with a user is handled in this step
JoinHandled ==
    /\ wsMessages' = wsMessages + 1
    /\ message'.event = "pomodoro:join"
    /\ clients[message'.client].user # NoUser

\* the last emit of the server
LastSent == sent[Len(sent)]

\* C29: on 'pomodoro:join' with id P from a socket of user U: when no
\* pomodoro P of U is found the socket receives 'error' 'Pomodoro not
\* found', joins no room and no status is emitted; otherwise the socket is
\* in room P and a 'status' event of P is emitted to that room and received
\* by the socket
C29_JoinAnswer ==
    [][JoinHandled =>
         LET c     == message'.client
             P     == message'.data.id
             owned == {p \in pomodoros :
                          p.id = ObjectId(P) /\ p.userId = clients[c].user}
         IN  /\ Len(sent') = Len(sent) + 1
             /\ IF owned = {}
                THEN /\ LastSent'.event = "error"
                     /\ LastSent'.data = "Pomodoro not found"
                     /\ received' = [received EXCEPT ![c] =
                                        Append(received[c],
                                               [event |-> "error",
                                                data |-> "Pomodoro not found"])]
                     /\ rooms' = rooms
                ELSE /\ <<c, P>> \in rooms'
                     /\ LastSent'.event = "status"
                     /\ LastSent'.to = <<"room", P>>
                     /\ \E p \in owned :
                           /\ LastSent'.data = StatusOf(p)
                           /\ received'[c] = Append(received[c],
                                                    [event |-> "status",
                                                     data |-> StatusOf(p)])]_vars

\* the token of the handshake is missing, or is a string that fails the
\* verification
BadToken(h) ==
    LET raw == IF h.token # Absent THEN h.token ELSE h.authorization
    IN  \/ raw = Absent
        \/ /\ raw # NotAString
           /\ \A u \in Users : raw # <<Jwt[u]>> /\ raw # <<"Bearer", Jwt[u]>>

AtRest == timerCall = NoTimerCall

\* the names of the timeouts in the scheduler registry
TimeoutNames == {e.name : e \in schedulerRegistry}

\* the ids of the countdowns that are stored and RUNNING
RunningCountdowns == {c.id : c \in {d \in countdowns : d.status = RUNNING}}

\* C31: between the calls, the scheduler registry holds a timeout named by a
\* countdown's id exactly when that countdown is stored and RUNNING
C31_TimeoutIffRunning == AtRest => TimeoutNames = RunningCountdowns

\* a call comes to its end in this step, with or without a save
CallEnds == (CallBegins /\ timerCall' = NoTimerCall) \/ ChangingCallEnds

\* C32: every start, pause, resume or stop of an existing countdown by its
\* owner ends without an error (so none fails after its save)
C32_OwnerCallsSucceed ==
    [][(/\ CallEnds
        /\ outcome'.call.kind = "countdown"
        /\ outcome'.call.op \in {"start", "pause", "resume", "stop"}
        /\ \E c \in countdowns :
              c.id = outcome'.call.id /\ c.userId = outcome'.call.userId)
       => outcome'.result = "returned"]_vars

\* C33: the remaining time of every stored countdown is between 0 and its
\* duration
C33_RemainingWithinDuration ==
    \A c \in countdowns : 0 <= c.remainingTime /\ c.remainingTime <= c.duration

\* a pause of a countdown has its save done in this step
CountdownPauseSaves ==
    /\ CallBegins
    /\ timerCall' # NoTimerCall
    /\ timerCall'.op = "pause"
    /\ timerCall'.kind = "countdown"

\* C34: a pause leaves as remaining time the duration less all the time the
\* countdown has run since it left STOPPED.  While the countdown runs, its
\* stored remaining time is the duration less the time of the earlier run
\* intervals (the duration itself after a start from STOPPED, the value of
\* the last pause after a resume), so the pause has to take the time since
\* startedAt off the stored remaining time
C34_PauseSubtractsRunTime ==
    [][CountdownPauseSaves =>
         \A old \in Stored("countdown", timerCall'.call.id) :
            timerCall'.saved.remainingTime
               = old.remainingTime - (now - old.startedAt)]_vars

\* the ids a countdown can have
CountdownIds == 1..(MaxTimerCalls + 2)

\* the countdown of that id is stored and RUNNING
Running(id) == \E c \in countdowns : c.id = id /\ c.status = RUNNING

\* the countdown of that id has been paused, stopped or deleted, or it is
\* FINISHED and a 'status' event says so
Ended(id) ==
    \/ \A c \in countdowns : c.id # id
    \/ \E c \in countdowns : c.id = id /\ c.status \in {PAUSED, STOPPED}
    \/ /\ \E c \in countdowns : c.id = id /\ c.status = FINISHED
       /\ \E i \in DOMAIN emitted :
             emitted[i].data.id = id /\ emitted[i].data.status = FINISHED

\* C35: a RUNNING countdown that is not paused, stopped or deleted ends up
\* FINISHED, with a 'status' event that announces it
C35_RunningFinishes == \A id \in CountdownIds : Running(id) ~> Ended(id)

\* the connected sockets of a gateway that are authenticated as the user
LiveSocketsOf(g, u) ==
    {c \in DOMAIN clients :
        clients[c].connected /\ clients[c].gateway = g /\ clients[c].user = u}

\* C36: in PomodoroWsHandler (the sockets of AppGateway) and in TimerGateway,
\* userSockets[U] is the set of the connected sockets authenticated as U
C36_UserSocketsAreLive ==
    \A g \in Gateways, u \in Users : userSockets[g][u] = LiveSocketsOf(g, u)

====
